---- MODULE Spec2Model ----
(***************************************************************************)
(* A model of chatbot_app.py: the response-selection function              *)
(* get_bot_response (keyword table, two regular expressions, fallback),    *)
(* and the /chat handler that validates the message, computes the reply    *)
(* and logs the exchange to the SQLite table `conversations`.              *)
(*                                                                         *)
(* Text that is searched (the user's message, the trigger phrases) is a    *)
(* sequence of characters, one string per code point; a code point outside *)
(* ASCII is written as Python's ascii() writes it ("\\u0915").  Replies    *)
(* are strings, written the same way.                                      *)
(***************************************************************************)
EXTENDS Integers, Sequences, FiniteSets, TLC

(***************************************************************************)
(* Bounds of the model.                                                    *)
(***************************************************************************)
\* At most this many vocabulary pieces are concatenated into one input.
MaxPieces == 2
\* At most this many midnights pass during one behaviour.
MaxTicks == 1
\* Number of /chat requests, each served by its own thread.
NumRequests == 2

VARIABLES
    \* --- one call of get_bot_response, step by step ---
    pc,            \* "call", "date1", "date2", "match", "done", or "off"
    user_message,  \* the argument, as passed
    lowered,       \* user_message after line 180
    date1,         \* what the first datetime.date.today() of line 190 returned
    date2,         \* what the second datetime.date.today() of line 190 returned
    response,      \* the value returned
    today,         \* the host's calendar date
    ticks,         \* midnights passed so far
    \* --- the server and its requests ---
    phase,         \* "boot" or "serving"
    req,           \* req[r]: the state of request r
    rows,          \* the committed rows of table conversations, in rowid order
    table_exists,  \* whether table conversations exists in chatbot_logs.db
    seq,           \* sqlite_sequence.seq of the table: the largest rowid ever committed
    writer         \* the request whose connection holds the write lock, or 0

matchVars == <<pc, user_message, lowered, date1, date2, response, today, ticks>>
chatVars == <<phase, req, rows, table_exists, seq, writer>>
vars == <<pc, user_message, lowered, date1, date2, response, today, ticks,
          phase, req, rows, table_exists, seq, writer>>

(***************************************************************************)
(* Characters.                                                             *)
(***************************************************************************)
Uppercase == <<"A", "B", "C", "D", "E", "F", "G", "H", "I", "J", "K", "L", "M",
               "N", "O", "P", "Q", "R", "S", "T", "U", "V", "W", "X", "Y", "Z">>
Lowercase == <<"a", "b", "c", "d", "e", "f", "g", "h", "i", "j", "k", "l", "m",
               "n", "o", "p", "q", "r", "s", "t", "u", "v", "w", "x", "y", "z">>
DecimalDigits == <<"0", "1", "2", "3", "4", "5", "6", "7", "8", "9">>

RangeOf(s) == {s[i] : i \in 1..Len(s)}

\* The Devanagari letters (Unicode category Lo) of the program's phrases.  The
\* vowel signs, the anusvara and the virama (categories Mn, Mc) are not letters.
DevanagariLetters ==
    {"\\u0906", "\\u0909", "\\u0915", "\\u0916", "\\u091a", "\\u091c", "\\u091f",
     "\\u0924", "\\u0926", "\\u0928", "\\u092a", "\\u092d", "\\u092e", "\\u092f",
     "\\u0930", "\\u0935", "\\u0936", "\\u0937", "\\u0938", "\\u0939"}

\* The characters \w of a str pattern matches: alphanumeric in Unicode, or the
\* underscore.
WordChars ==
    RangeOf(Lowercase) \cup RangeOf(Uppercase) \cup RangeOf(DecimalDigits)
        \cup {"_"} \cup DevanagariLetters

IsWordChar(c) == c \in WordChars

\* str.lower() on one character: the cased characters here are A..Z.
LowerChar(c) ==
    IF \E i \in 1..Len(Uppercase) : Uppercase[i] = c
    THEN Lowercase[CHOOSE i \in 1..Len(Uppercase) : Uppercase[i] = c]
    ELSE c

\* str.lower()
lower(s) == [i \in 1..Len(s) |-> LowerChar(s[i])]

(***************************************************************************)
(* datetime.date and strftime('%B %d, %Y').                                *)
(***************************************************************************)
MonthNames == <<"January", "February", "March", "April", "May", "June", "July",
                "August", "September", "October", "November", "December">>

IsLeapYear(y) == (y % 4 = 0 /\ y % 100 # 0) \/ y % 400 = 0

DaysInMonth(y, m) ==
    IF m = 2 THEN (IF IsLeapYear(y) THEN 29 ELSE 28)
    ELSE IF m \in {4, 6, 9, 11} THEN 30 ELSE 31

\* The calendar date after date d.
Tomorrow(d) ==
    IF d.day < DaysInMonth(d.year, d.month)
    THEN [d EXCEPT !.day = d.day + 1]
    ELSE IF d.month < 12
         THEN [year |-> d.year, month |-> d.month + 1, day |-> 1]
         ELSE [year |-> d.year + 1, month |-> 1, day |-> 1]

RECURSIVE DecimalString(_)
DecimalString(n) ==
    IF n < 10 THEN DecimalDigits[n + 1]
    ELSE DecimalString(n \div 10) \o DecimalDigits[(n % 10) + 1]

\* %d: the day of the month as a zero-padded decimal number.
ZeroPadded2(n) == IF n < 10 THEN "0" \o DecimalString(n) ELSE DecimalString(n)

\* date.strftime('%B %d, %Y')
strftime(d) ==
    MonthNames[d.month] \o " " \o ZeroPadded2(d.day) \o ", " \o DecimalString(d.year)

\* No date read yet.
NoDate == [year |-> 0, month |-> 0, day |-> 0]

(***************************************************************************)
(* Substring search and the two regular expressions.                       *)
(***************************************************************************)
\* s[i+1 .. i+Len(t)] = t
MatchesAt(s, t, i) ==
    /\ i + Len(t) <= Len(s)
    /\ \A k \in 1..Len(t) : s[i + k] = t[k]

\* Python's `t in s`
Contains(s, t) == \E i \in 0..Len(s) : MatchesAt(s, t, i)

\* \b at offset p of s (between s[p] and s[p+1]): exactly one side is a word character.
WordBoundary(s, p) ==
    (p >= 1 /\ IsWordChar(s[p])) # (p < Len(s) /\ IsWordChar(s[p + 1]))

Work == <<"w", "o", "r", "k">>
Do == <<"d", "o">>
You == <<"y", "o", "u">>

\* re.search(r'\b(work|do)\b.*\b(you)\b', s): `.` matches any character but "\n".
SearchWorkDoYou(s) ==
    \E w \in {Work, Do} : \E i \in 0..Len(s) :
        /\ MatchesAt(s, w, i)
        /\ WordBoundary(s, i)
        /\ WordBoundary(s, i + Len(w))
        /\ \E j \in (i + Len(w))..Len(s) :
              /\ MatchesAt(s, You, j)
              /\ WordBoundary(s, j)
              /\ WordBoundary(s, j + Len(You))
              /\ \A k \in (i + Len(w) + 1)..j : s[k] # "\n"

KayKamKarto == <<"\\u0915", "\\u093e", "\\u092f", " ", "\\u0915", "\\u093e", "\\u092e", " ", "\\u0915", "\\u0930", "\\u0924", "\\u094b">>

\* re.search(r'<the Marathi phrase>', s): a literal pattern.
SearchKayKamKarto(s) == Contains(s, KayKamKarto)

(***************************************************************************)
(* get_bot_response.                                                       *)
(***************************************************************************)
\* The dictionary of line 183, in insertion order; date1 and date2 are what the
\* two calls of datetime.date.today() in the f-string of line 190 returned.
RESPONSES(d1, d2) ==
    <<
      [keywords |-> << <<"h", "e", "l", "l", "o">>,
                        <<"h", "i">>,
                        <<"\\u0928", "\\u092e", "\\u0938", "\\u094d", "\\u0915", "\\u093e", "\\u0930">>,
                        <<"\\u0915", "\\u0938", "\\u093e", " ", "\\u0906", "\\u0939", "\\u0947", "\\u0938">> >>,
       response |-> "Hello there! How can I assist you today? (\\u0928\\u092e\\u0938\\u094d\\u0915\\u093e\\u0930! \\u092e\\u0940 \\u0924\\u0941\\u092e\\u094d\\u0939\\u093e\\u0932\\u093e \\u0915\\u0936\\u0940 \\u092e\\u0926\\u0924 \\u0915\\u0930\\u0942 \\u0936\\u0915\\u0924\\u094b?)"],
      [keywords |-> << <<"h", "o", "w", " ", "a", "r", "e", " ", "y", "o", "u">>,
                        <<"\\u0915", "\\u0938", "\\u093e", " ", "\\u0906", "\\u0939", "\\u0947", "\\u0938">> >>,
       response |-> "I'm a bot, so I'm doing great! Thanks for asking. (\\u092e\\u0940 \\u0920\\u0940\\u0915 \\u0906\\u0939\\u0947, \\u0935\\u093f\\u091a\\u093e\\u0930\\u0932\\u094d\\u092f\\u093e\\u092c\\u0926\\u094d\\u0926\\u0932 \\u0927\\u0928\\u094d\\u092f\\u0935\\u093e\\u0926!)"],
      [keywords |-> << <<"h", "e", "l", "p">>,
                        <<"\\u092e", "\\u0926", "\\u0924">> >>,
       response |-> "I can help with basic inquiries. Try asking about my purpose or capabilities. (\\u092e\\u0940 \\u0924\\u0941\\u092e\\u094d\\u0939\\u093e\\u0932\\u093e \\u0915\\u093e\\u0939\\u0940 \\u092e\\u0942\\u0932\\u092d\\u0942\\u0924 \\u092a\\u094d\\u0930\\u0936\\u094d\\u0928\\u093e\\u0902\\u091a\\u0940 \\u0909\\u0924\\u094d\\u0924\\u0930\\u0947 \\u0926\\u0947\\u090a \\u0936\\u0915\\u0924\\u094b. \\u092e\\u093e\\u091d\\u094d\\u092f\\u093e \\u0909\\u0926\\u094d\\u0926\\u0947\\u0936 \\u0915\\u093f\\u0902\\u0935\\u093e \\u0915\\u094d\\u0937\\u092e\\u0924\\u0947\\u092c\\u0926\\u094d\\u0926\\u0932 \\u0935\\u093f\\u091a\\u093e\\u0930\\u0942\\u0928 \\u092a\\u0939\\u093e.)"],
      [keywords |-> << <<"p", "u", "r", "p", "o", "s", "e">>,
                        <<"c", "a", "p", "a", "b", "i", "l", "i", "t", "i", "e", "s">>,
                        <<"w", "o", "r", "k">>,
                        <<"\\u0909", "\\u0926", "\\u094d", "\\u0926", "\\u0947", "\\u0936">>,
                        <<"\\u0915", "\\u094d", "\\u0937", "\\u092e", "\\u0924", "\\u093e">> >>,
       response |-> "I am a simple chatbot designed to demonstrate a basic web application with a Flask backend and SQLite logging. (\\u092e\\u0940 \\u090f\\u0915 \\u0938\\u093e\\u0927\\u093e \\u091a\\u0945\\u091f\\u092c\\u0949\\u091f \\u0906\\u0939\\u0947 \\u091c\\u094b \\u092b\\u094d\\u0932\\u093e\\u0938\\u094d\\u0915 \\u092c\\u0945\\u0915\\u090f\\u0902\\u0921 \\u0906\\u0923\\u093f SQLite \\u0932\\u0949\\u0917\\u093f\\u0902\\u0917\\u0938\\u0939 \\u090f\\u0915 \\u0935\\u0947\\u092c \\u0972\\u092a\\u094d\\u0932\\u093f\\u0915\\u0947\\u0936\\u0928 \\u0926\\u0930\\u094d\\u0936\\u0935\\u093f\\u0923\\u094d\\u092f\\u093e\\u0938\\u093e\\u0920\\u0940 \\u0921\\u093f\\u091d\\u093e\\u0907\\u0928 \\u0915\\u0947\\u0932\\u093e \\u0906\\u0939\\u0947.)"],
      [keywords |-> << <<"g", "o", "o", "d", "b", "y", "e">>,
                        <<"b", "y", "e">>,
                        <<"\\u092a", "\\u0941", "\\u0928", "\\u094d", "\\u0939", "\\u093e", " ", "\\u092d", "\\u0947", "\\u091f", "\\u0942">> >>,
       response |-> "Goodbye! Feel free to return if you have more questions. (\\u092a\\u0941\\u0928\\u094d\\u0939\\u093e \\u092d\\u0947\\u091f\\u0942! \\u0924\\u0941\\u092e\\u094d\\u0939\\u093e\\u0932\\u093e \\u0906\\u0923\\u0916\\u0940 \\u0915\\u093e\\u0939\\u0940 \\u092a\\u094d\\u0930\\u0936\\u094d\\u0928 \\u0905\\u0938\\u0932\\u094d\\u092f\\u093e\\u0938, \\u0928\\u0915\\u094d\\u0915\\u0940 \\u092a\\u0930\\u0924 \\u092f\\u093e.)"],
      [keywords |-> << <<"n", "a", "m", "e">>,
                        <<"w", "h", "a", "t", "'", "s", " ", "y", "o", "u", "r", " ", "n", "a", "m", "e">>,
                        <<"w", "h", "a", "t", " ", "i", "s", " ", "y", "o", "u", "r", " ", "n", "a", "m", "e">>,
                        <<"\\u0928", "\\u093e", "\\u0935">>,
                        <<"\\u0924", "\\u0941", "\\u092e", "\\u091a", "\\u0902", " ", "\\u0928", "\\u093e", "\\u0935", " ", "\\u0915", "\\u093e", "\\u092f", " ", "\\u0906", "\\u0939", "\\u0947">> >>,
       response |-> "I don't have a name, but you can call me Chatbot. (\\u092e\\u093e\\u091d\\u0947 \\u0915\\u093e\\u0939\\u0940 \\u0928\\u093e\\u0935 \\u0928\\u093e\\u0939\\u0940, \\u092a\\u0923 \\u0924\\u0941\\u092e\\u094d\\u0939\\u0940 \\u092e\\u0932\\u093e \\u091a\\u0945\\u091f\\u092c\\u0949\\u091f \\u092e\\u094d\\u0939\\u0923\\u0942 \\u0936\\u0915\\u0924\\u093e.)"],
      [keywords |-> << <<"d", "a", "t", "e">>,
                        <<"t", "o", "d", "a", "y", "'", "s", " ", "d", "a", "t", "e">>,
                        <<"\\u0906", "\\u091c", "\\u091a", "\\u0940", " ", "\\u0924", "\\u093e", "\\u0930", "\\u0940", "\\u0916">>,
                        <<"\\u0924", "\\u093e", "\\u0930", "\\u0940", "\\u0916">> >>,
       response |-> "Today's date is: " \o strftime(d1)
                       \o ". (\\u0906\\u091c\\u091a\\u0940 \\u0924\\u093e\\u0930\\u0940\\u0916 \\u0906\\u0939\\u0947: " \o strftime(d2) \o ")"]
    >>

RegexResponse ==
    "I am a simple chatbot designed to demonstrate a basic web application with a Flask backend and SQLite logging. (\\u092e\\u0940 \\u090f\\u0915 \\u0938\\u093e\\u0927\\u093e \\u091a\\u0945\\u091f\\u092c\\u0949\\u091f \\u0906\\u0939\\u0947 \\u091c\\u094b \\u092b\\u094d\\u0932\\u093e\\u0938\\u094d\\u0915 \\u092c\\u0945\\u0915\\u090f\\u0902\\u0921 \\u0906\\u0923\\u093f SQLite \\u0932\\u0949\\u0917\\u093f\\u0902\\u0917\\u0938\\u0939 \\u090f\\u0915 \\u0935\\u0947\\u092c \\u0972\\u092a\\u094d\\u0932\\u093f\\u0915\\u0947\\u0936\\u0928 \\u0926\\u0930\\u094d\\u0936\\u0935\\u093f\\u0923\\u094d\\u092f\\u093e\\u0938\\u093e\\u0920\\u0940 \\u0921\\u093f\\u091d\\u093e\\u0907\\u0928 \\u0915\\u0947\\u0932\\u093e \\u0906\\u0939\\u0947.)"

\* Mutant of FallbackResponse: the last return gives back an empty string.
EmptyFallback == ""

FallbackResponse ==
    "I'm sorry, I don't understand that. Can you please rephrase? (\\u092e\\u093e\\u092b \\u0915\\u0930\\u093e, \\u092e\\u0932\\u093e \\u0938\\u092e\\u091c\\u0932\\u0947 \\u0928\\u093e\\u0939\\u0940. \\u0915\\u0943\\u092a\\u092f\\u093e \\u092a\\u0941\\u0928\\u094d\\u0939\\u093e \\u0938\\u093e\\u0902\\u0917\\u093e.)"

\* Mutant of AnyKeyword: all() where the code has any().
AllKeywords(keywords, s) == \A k \in 1..Len(keywords) : Contains(s, keywords[k])

\* any(keyword in user_message for keyword in keywords)
AnyKeyword(keywords, s) == \E k \in 1..Len(keywords) : Contains(s, keywords[k])

\* Mutant of ScanResponses: the loop does not return at the first match but
\* keeps the response of the last rule that matches.
RECURSIVE ScanResponsesLastMatch(_, _, _)
ScanResponsesLastMatch(table, s, i) ==
    IF i > Len(table) THEN FallbackResponse
    ELSE LET rest == ScanResponsesLastMatch(table, s, i + 1)
         IN  IF rest # FallbackResponse THEN rest
             ELSE IF AnyKeyword(table[i].keywords, s) THEN table[i].response
             ELSE FallbackResponse

\* The loop of lines 199-201 from entry i on, then line 203.
RECURSIVE ScanResponses(_, _, _)
ScanResponses(table, s, i) ==
    IF i > Len(table) THEN FallbackResponse
    ELSE IF AnyKeyword(table[i].keywords, s) THEN table[i].response
    ELSE ScanResponses(table, s, i + 1)

\* Mutant of SelectResponse: the table is scanned before the regular expressions
\* are tried.
SelectResponseTableFirst(s, table) ==
    IF ScanResponses(table, s, 1) # FallbackResponse THEN ScanResponses(table, s, 1)
    ELSE IF SearchWorkDoYou(s) \/ SearchKayKamKarto(s) THEN RegexResponse
    ELSE FallbackResponse

\* Lines 195-203 on the lowered message.
SelectResponse(s, table) ==
    IF SearchWorkDoYou(s) \/ SearchKayKamKarto(s) THEN RegexResponse
    ELSE ScanResponses(table, s, 1)

\* The whole function, given the dates its two readings of the clock returned.
get_bot_response(message, d1, d2) == SelectResponse(lower(message), RESPONSES(d1, d2))

(***************************************************************************)
(* One call of get_bot_response, statement by statement, while the host's  *)
(* calendar date may change.                                               *)
(***************************************************************************)
\* Fragments of text from which the inputs are built.
Pieces ==
    << <<"h", "i">>,
       <<"H", "E", "L", "L", "O">>,
       <<"t", "h", "i", "s">>,
       <<"h", "o", "w", " ", "a", "r", "e", " ", "y", "o", "u">>,
       <<"h", "e", "l", "p">>,
       <<"w", "o", "r", "k">>,
       <<"b", "y", "e">>,
       <<"n", "a", "m", "e">>,
       <<"d", "a", "t", "e">>,
       <<"d", "o">>,
       <<" ", "y", "o", "u">>,
       <<"\n", "y", "o", "u">>,
       <<" ", "d", "o", " ", "y", "o", "u">>,
       <<"x">>,
       KayKamKarto,
       <<"\\u0915", "\\u0938", "\\u093e", " ", "\\u0906", "\\u0939", "\\u0947", "\\u0938">> >>

RECURSIVE Flatten(_)
Flatten(ps) == IF ps = <<>> THEN <<>> ELSE Pieces[Head(ps)] \o Flatten(Tail(ps))

\* Every concatenation of at most MaxPieces pieces, the empty string included.
Inputs == UNION {{Flatten(ps) : ps \in [1..n -> 1..Len(Pieces)]} : n \in 0..MaxPieces}

\* Dates the clock may show when the call begins.
StartDates == {[year |-> 2025, month |-> 12, day |-> 31],
               [year |-> 2024, month |-> 2, day |-> 28]}

\* Python's None where a string is expected.
None == "None"

NoRow == [id |-> 0, user_message |-> <<>>, bot_response |-> None]

IdleRequest ==
    [pc |-> "idle", has_message |-> FALSE, message |-> <<>>,
     invoked |-> FALSE, bot_response |-> None, conn |-> "none", txn |-> NoRow,
     lastrowid |-> 0, status |-> 0, reply |-> None]

Requests == 1..NumRequests

InitMatch ==
    /\ pc = "call"
    /\ user_message \in Inputs
    /\ lowered = <<>>
    /\ date1 = NoDate
    /\ date2 = NoDate
    /\ response = None
    /\ today \in StartDates
    /\ ticks = 0
    /\ phase = "boot"
    /\ req = [r \in Requests |-> IdleRequest]
    /\ rows = <<>>
    /\ table_exists = FALSE
    /\ seq = 0
    /\ writer = 0

\* Midnight passes.
Tick ==
    /\ ticks < MaxTicks
    /\ today' = Tomorrow(today)
    /\ ticks' = ticks + 1
    /\ UNCHANGED <<pc, user_message, lowered, date1, date2, response>>
    /\ UNCHANGED chatVars

\* Line 180.
LowerMessage ==
    /\ pc = "call"
    /\ lowered' = lower(user_message)
    /\ pc' = "date1"
    /\ UNCHANGED <<user_message, date1, date2, response, today, ticks>>
    /\ UNCHANGED chatVars

\* Line 190, the first datetime.date.today().
ReadDate1 ==
    /\ pc = "date1"
    /\ date1' = today
    /\ pc' = "date2"
    /\ UNCHANGED <<user_message, lowered, date2, response, today, ticks>>
    /\ UNCHANGED chatVars

\* Line 190, the second datetime.date.today().
ReadDate2 ==
    /\ pc = "date2"
    /\ date2' = today
    /\ pc' = "match"
    /\ UNCHANGED <<user_message, lowered, date1, response, today, ticks>>
    /\ UNCHANGED chatVars

\* Lines 195-203.
Match ==
    /\ pc = "match"
    /\ response' = SelectResponse(lowered, RESPONSES(date1, date2))
    /\ pc' = "done"
    /\ UNCHANGED <<user_message, lowered, date1, date2, today, ticks>>
    /\ UNCHANGED chatVars

CallStep == LowerMessage \/ ReadDate1 \/ ReadDate2 \/ Match

NextMatch == CallStep \/ Tick

SpecMatch == InitMatch /\ [][NextMatch]_vars

(***************************************************************************)
(* Properties of get_bot_response, checked under SpecMatch.                *)
(***************************************************************************)
\* t occurs in s as a contiguous run of characters.
Occurs(t, s) ==
    \E i \in 1..(Len(s) - Len(t) + 1) :
        s[i] = t[1] /\ SubSeq(s, i, i + Len(t) - 1) = t

\* The trigger phrases of the table's rules, which no date changes.
Keywords ==
    LET anyDate == [year |-> 1970, month |-> 1, day |-> 1]
        table == RESPONSES(anyDate, anyDate)
    IN  [i \in 1..Len(table) |-> table[i].keywords]

NumRules == Len(Keywords)

\* String s contains a trigger phrase of table rule i.
HasTrigger(s, i) == \E k \in 1..Len(Keywords[i]) : Occurs(Keywords[i][k], s)

\* The table rules with a trigger phrase in s.
Triggered(s) == {i \in 1..NumRules : HasTrigger(s, i)}

\* Table rule i is the first rule with a trigger phrase in s.
FirstTriggered(s, i) == HasTrigger(s, i) /\ \A j \in 1..(i - 1) : ~HasTrigger(s, j)

\* The response of table rule i in the finished call.
ResponseOfRule(i) == RESPONSES(date1, date2)[i].response

\* w stands in s at offset i as a whole word: no word character touches it.
WholeWordAt(s, w, i) ==
    /\ i + Len(w) <= Len(s)
    /\ s[i + 1] = w[1]
    /\ SubSeq(s, i + 1, i + Len(w)) = w
    /\ (i = 0 \/ ~IsWordChar(s[i]))
    /\ (i + Len(w) = Len(s) \/ ~IsWordChar(s[i + Len(w) + 1]))

\* A whole word "work" or "do" is followed, anywhere later, by a whole word "you".
WorkOrDoThenYou(s) ==
    \E i \in 0..Len(s) :
        /\ WholeWordAt(s, Work, i) \/ WholeWordAt(s, Do, i)
        /\ \E j \in (i + 1)..Len(s) : WholeWordAt(s, You, j)

\* The same, with no newline between the end of the first word and the "you".
WorkOrDoThenYouOnOneLine(s) ==
    \E i \in 0..Len(s) :
        /\ WholeWordAt(s, Work, i) \/ WholeWordAt(s, Do, i)
        /\ \E j \in (i + 1)..Len(s) :
              /\ WholeWordAt(s, You, j)
              /\ \A k \in (i + 1)..j : s[k] # "\n"

HasMarathiPhrase(s) == Occurs(KayKamKarto, s)

\* C1, as claimed: an input whose first triggered table rule is rule i gets
\* rule i's response.
C1_FirstTriggeredRuleAnswers ==
    pc = "done" =>
        LET s == lower(user_message)
            hit == Triggered(s)
        IN  \A i \in hit : (\A j \in hit : i <= j) => response = ResponseOfRule(i)

\* C1, amended: an input that matches neither regular expression and whose
\* first triggered table rule is rule i gets rule i's response.
C1_FirstTriggeredRuleAnswersUnlessRegex ==
    pc = "done" =>
        LET s == lower(user_message)
            hit == Triggered(s)
        IN  ~WorkOrDoThenYouOnOneLine(s) /\ ~HasMarathiPhrase(s) =>
                \A i \in hit : (\A j \in hit : i <= j) => response = ResponseOfRule(i)

\* A call that rule 3 answered although a later rule's trigger is present too.
C1_Witness ==
    /\ pc = "done"
    /\ ~WorkOrDoThenYouOnOneLine(lowered) /\ ~HasMarathiPhrase(lowered)
    /\ FirstTriggered(lowered, 3)
    /\ HasTrigger(lowered, 5)
    /\ response = ResponseOfRule(3)

\* C2: the call is total.  Each statement before the selection can execute,
\* the selection of lines 195-203 yields a value for every message, and what
\* the call returns is one string that is not empty.
C2_TotalAndNonEmpty ==
    /\ pc \in {"call", "date1", "date2", "match", "done"}
    /\ pc \in {"call", "date1", "date2"} => ENABLED CallStep
    /\ pc = "match" => Len(SelectResponse(lowered, RESPONSES(date1, date2))) > 0
    /\ pc = "done" => response # None /\ response # "" /\ Len(response) > 0

\* The call on the empty string has returned.
C2_Witness == pc = "done" /\ user_message = <<>> /\ response = FallbackResponse

\* C3, as claimed: a whole word "work" or "do" followed later by a whole word
\* "you", or the Marathi phrase, gets the regex response whatever else is there.
C3_RegexFirst ==
    pc = "done" =>
        LET s == lower(user_message)
        IN  WorkOrDoThenYou(s) \/ HasMarathiPhrase(s) => response = RegexResponse

\* C3, amended: the "you" must follow on the same line.
C3_RegexFirstOnOneLine ==
    pc = "done" =>
        LET s == lower(user_message)
        IN  WorkOrDoThenYouOnOneLine(s) \/ HasMarathiPhrase(s) =>
                response = RegexResponse

\* The regex answered an input that also holds a trigger of table rule 1, whose
\* response is another one.
C3_Witness ==
    /\ pc = "done"
    /\ WorkOrDoThenYouOnOneLine(lowered)
    /\ HasTrigger(lowered, 1)
    /\ response = RegexResponse
    /\ response # ResponseOfRule(1)

\* C4: the fallback is returned exactly for the inputs that match neither
\* regular expression and hold no trigger phrase of any table rule.
C4_FallbackExactly ==
    pc = "done" =>
        LET s == lower(user_message)
        IN  response = FallbackResponse <=>
                /\ ~WorkOrDoThenYouOnOneLine(s)
                /\ ~HasMarathiPhrase(s)
                /\ Triggered(s) = {}

\* A non-empty input got the fallback.
C4_Witness == pc = "done" /\ user_message # <<>> /\ response = FallbackResponse

\* The dates the clock can show in a behaviour.
RECURSIVE DatesFrom(_, _)
DatesFrom(d, n) == IF n = 0 THEN {d} ELSE {d} \cup DatesFrom(Tomorrow(d), n - 1)

ClockDates == UNION {DatesFrom(d, MaxTicks) : d \in StartDates}

\* C9: the date rule's response carries one date, the date of the call, in both
\* of its places.
C9_OneDateInBothPlaces ==
    pc = "done" /\ response = ResponseOfRule(NumRules) =>
        \E d \in ClockDates : response = RESPONSES(d, d)[NumRules].response

(***************************************************************************)
(* The server: start-up, and /chat requests served by concurrent threads,  *)
(* each with its own SQLite connection.                                    *)
(***************************************************************************)
\* The JSON bodies posted to /chat: an object without "message", or with one.
Bodies ==
    {[has_message |-> FALSE, message |-> <<>>]}
    \cup {[has_message |-> TRUE, message |-> m] :
            m \in {<<>>, <<"H", "i">>, <<"d", "a", "t", "e">>}}

Init ==
    /\ pc = "off"
    /\ user_message = <<>>
    /\ lowered = <<>>
    /\ date1 = NoDate
    /\ date2 = NoDate
    /\ response = None
    /\ today = [year |-> 2025, month |-> 12, day |-> 31]
    /\ ticks = 0
    /\ phase = "boot"
    /\ req = [r \in Requests |-> IdleRequest]
    /\ rows = <<>>
    /\ table_exists = FALSE
    /\ seq = 0
    /\ writer = 0

\* Lines 231-235: run as a script, init_db() creates the table before serving.
InitDb ==
    /\ phase = "boot"
    /\ table_exists' = TRUE
    /\ phase' = "serving"
    /\ UNCHANGED <<req, rows, seq, writer>>
    /\ UNCHANGED matchVars

\* Line 231: imported by a WSGI server, the module serves without init_db().
ServeImported ==
    /\ phase = "boot"
    /\ phase' = "serving"
    /\ UNCHANGED <<req, rows, table_exists, seq, writer>>
    /\ UNCHANGED matchVars

\* A POST /chat arrives.
Receive(r, body) ==
    /\ phase = "serving"
    /\ req[r].pc = "idle"
    /\ req' = [req EXCEPT ![r].pc = "validate",
                          ![r].has_message = body.has_message,
                          ![r].message = body.message]
    /\ UNCHANGED <<phase, rows, table_exists, seq, writer>>
    /\ UNCHANGED matchVars

\* Mutant of NotMessage: `user_message is None` where the code has `not user_message`.
MessageIsNone(q) == ~q.has_message

\* `not user_message` of line 215: None or the empty string.
NotMessage(q) == ~q.has_message \/ q.message = <<>>

\* Mutant of Validate: the `return` of line 216 is missing, so a rejected
\* request goes on to line 218.
ValidateWithoutReturn(r) ==
    /\ req[r].pc = "validate"
    /\ req' = [req EXCEPT ![r].pc = "call"]
    /\ UNCHANGED <<phase, rows, table_exists, seq, writer>>
    /\ UNCHANGED matchVars

\* Lines 214-216.
Validate(r) ==
    /\ req[r].pc = "validate"
    /\ req' = IF NotMessage(req[r])
              THEN [req EXCEPT ![r].pc = "ended", ![r].status = 400]
              ELSE [req EXCEPT ![r].pc = "call"]
    /\ UNCHANGED <<phase, rows, table_exists, seq, writer>>
    /\ UNCHANGED matchVars

\* Line 218: the call of get_bot_response, which reads the clock twice at line
\* 190; midnight may pass between the two readings.
Respond(r) ==
    /\ req[r].pc = "call"
    /\ \E midnight \in {FALSE} \cup {ticks < MaxTicks} :
          /\ today' = IF midnight THEN Tomorrow(today) ELSE today
          /\ ticks' = IF midnight THEN ticks + 1 ELSE ticks
          /\ req' = [req EXCEPT ![r].pc = "connect", ![r].invoked = TRUE,
                                ![r].bot_response =
                                    get_bot_response(req[r].message, today, today')]
    /\ UNCHANGED <<phase, rows, table_exists, seq, writer>>
    /\ UNCHANGED <<pc, user_message, lowered, date1, date2, response>>

\* An exception leaves chat(): the request ends with 500 and whatever
\* connection it opened is left as it is.
Raise(q) == [q EXCEPT !.pc = "ended", !.status = 500]

\* Lines 221, 160-164: sqlite3.connect succeeds.
Connect(r) ==
    /\ req[r].pc = "connect"
    /\ req' = [req EXCEPT ![r].pc = "insert", ![r].conn = "open"]
    /\ UNCHANGED <<phase, rows, table_exists, seq, writer>>
    /\ UNCHANGED matchVars

\* Line 221: sqlite3.connect raises (the file cannot be opened).
ConnectFails(r) ==
    /\ req[r].pc = "connect"
    /\ req' = [req EXCEPT ![r] = Raise(req[r])]
    /\ UNCHANGED <<phase, rows, table_exists, seq, writer>>
    /\ UNCHANGED matchVars

\* AUTOINCREMENT: one more than the largest rowid the table ever held.
NextRowid == seq + 1

\* Mutant of Insert: the INSERT does not wait for the write lock.
InsertWithoutLock(r) ==
    /\ req[r].pc = "insert"
    /\ table_exists
    /\ req' = [req EXCEPT ![r].pc = "commit",
                          ![r].lastrowid = NextRowid,
                          ![r].txn = [id |-> NextRowid,
                                      user_message |-> req[r].message,
                                      bot_response |-> req[r].bot_response]]
    /\ writer' = r
    /\ UNCHANGED <<phase, rows, table_exists, seq>>
    /\ UNCHANGED matchVars

\* Lines 222-225: the INSERT succeeds.  It opens a transaction and takes the
\* database's write lock, which no other connection may hold.
Insert(r) ==
    /\ req[r].pc = "insert"
    /\ table_exists
    /\ writer = 0
    /\ req' = [req EXCEPT ![r].pc = "commit",
                          ![r].lastrowid = NextRowid,
                          ![r].txn = [id |-> NextRowid,
                                      user_message |-> req[r].message,
                                      bot_response |-> req[r].bot_response]]
    /\ writer' = r
    /\ UNCHANGED <<phase, rows, table_exists, seq>>
    /\ UNCHANGED matchVars

\* Lines 222-225: the INSERT raises (no such table, database is locked, I/O error).
InsertFails(r) ==
    /\ req[r].pc = "insert"
    /\ req' = [req EXCEPT ![r] = Raise(req[r])]
    /\ UNCHANGED <<phase, rows, table_exists, seq, writer>>
    /\ UNCHANGED matchVars

\* Line 226: the commit succeeds, the row is durable and the lock is released.
Commit(r) ==
    /\ req[r].pc = "commit"
    /\ rows' = Append(rows, req[r].txn)
    /\ seq' = req[r].txn.id
    /\ writer' = 0
    /\ req' = [req EXCEPT ![r].pc = "close", ![r].txn = NoRow]
    /\ UNCHANGED <<phase, table_exists>>
    /\ UNCHANGED matchVars

\* Mutant of CommitFails: the exception of the commit is swallowed and the
\* handler goes on to line 227.
CommitFailsSwallowed(r) ==
    /\ req[r].pc = "commit"
    /\ req' = [req EXCEPT ![r].pc = "close"]
    /\ UNCHANGED <<phase, rows, table_exists, seq, writer>>
    /\ UNCHANGED matchVars

\* Line 226: the commit raises (disk full, I/O error); the transaction stays open.
CommitFails(r) ==
    /\ req[r].pc = "commit"
    /\ req' = [req EXCEPT ![r] = Raise(req[r])]
    /\ UNCHANGED <<phase, rows, table_exists, seq, writer>>
    /\ UNCHANGED matchVars

\* Line 227.
Close(r) ==
    /\ req[r].pc = "close"
    /\ req' = [req EXCEPT ![r].pc = "return", ![r].conn = "closed"]
    /\ UNCHANGED <<phase, rows, table_exists, seq, writer>>
    /\ UNCHANGED matchVars

\* Line 229.
Return(r) ==
    /\ req[r].pc = "return"
    /\ req' = [req EXCEPT ![r].pc = "ended", ![r].status = 200,
                          ![r].reply = req[r].bot_response]
    /\ UNCHANGED <<phase, rows, table_exists, seq, writer>>
    /\ UNCHANGED matchVars

\* The interpreter finalizes a connection that chat() left open: sqlite3 closes
\* it, which rolls back its open transaction and frees its lock.  When this
\* happens, if ever, is up to the interpreter.
Finalize(r) ==
    /\ req[r].pc = "ended"
    /\ req[r].conn = "open"
    /\ req' = [req EXCEPT ![r].conn = "closed", ![r].txn = NoRow]
    /\ writer' = IF writer = r THEN 0 ELSE writer
    /\ UNCHANGED <<phase, rows, table_exists, seq>>
    /\ UNCHANGED matchVars

Next ==
    \/ InitDb
    \/ ServeImported
    \/ Tick
    \/ \E r \in Requests :
          \/ \E body \in Bodies : Receive(r, body)
          \/ Validate(r)
          \/ Respond(r)
          \/ Connect(r)
          \/ ConnectFails(r)
          \/ Insert(r)
          \/ InsertFails(r)
          \/ Commit(r)
          \/ CommitFails(r)
          \/ Close(r)
          \/ Return(r)
          \/ Finalize(r)

Spec == Init /\ [][Next]_vars

(***************************************************************************)
(* Properties of /chat, checked under Spec.                                *)
(***************************************************************************)
\* The request's message is missing or empty.
MissingOrEmpty(q) == ~q.has_message \/ Len(q.message) = 0

\* The requests whose commit has succeeded.
Committed == {r \in Requests : req[r].pc \in {"close", "return"} \/ req[r].status = 200}

\* The requests that have returned {response: ...}.
Succeeded == {r \in Requests : req[r].status = 200}

\* Row number i of the table is the exchange of request r.
IsRowOf(i, r) ==
    /\ rows[i].id = req[r].lastrowid
    /\ rows[i].user_message = req[r].message
    /\ rows[i].bot_response = req[r].bot_response

\* C5: the table holds one row per committed call and nothing else, so exactly
\* n rows once n calls have succeeded and none is in flight; the identifiers are
\* distinct and ascending; each successful call's row holds its message and the
\* response it returned.
C5_OneRowPerSuccessfulCall ==
    /\ Len(rows) = Cardinality(Committed)
    /\ (\A r \in Requests : req[r].pc \in {"idle", "ended"}) =>
           Len(rows) = Cardinality(Succeeded)
    /\ \A i, j \in 1..Len(rows) : i < j => rows[i].id < rows[j].id
    /\ \A r \in Succeeded :
           /\ req[r].reply = req[r].bot_response
           /\ \E i \in 1..Len(rows) : IsRowOf(i, r)
    /\ \A r1, r2 \in Committed : r1 # r2 => req[r1].lastrowid # req[r2].lastrowid

\* Two calls have succeeded and a third request, if any, is not in flight.
C5_Witness ==
    /\ \E r1, r2 \in Requests :
          r1 # r2 /\ req[r1].status = 200 /\ req[r2].status = 200
                  /\ req[r1].message # req[r2].message
    /\ \A r \in Requests : req[r].pc \in {"idle", "ended"}
    /\ Len(rows) = 2

C7_LoggingFailureIsFatal ==
    \A r \in Requests :
        /\ req[r].conn # "none" => req[r].invoked /\ req[r].bot_response # None
        /\ req[r].pc \in {"insert", "commit", "close", "return"} =>
               req[r].bot_response # None /\ req[r].reply = None
        /\ req[r].reply # None =>
               /\ req[r].status = 200
               /\ r \in Committed
               /\ \E i \in 1..Len(rows) : IsRowOf(i, r)
        /\ req[r].pc = "ended" /\ req[r].invoked /\ r \notin Committed =>
               req[r].status = 500 /\ req[r].reply = None
        /\ req[r].pc = "ended" /\ req[r].invoked => Len(rows) = Cardinality(Committed)

\* A request whose commit raised has ended in an error, with its response
\* computed and not delivered, and its row is not in the table.
C7_Witness ==
    \E r \in Requests :
        /\ req[r].status = 500
        /\ req[r].lastrowid # 0
        /\ req[r].bot_response # None
        /\ req[r].reply = None
        /\ rows = <<>>

\* C8: no connection is open once its request has ended.
C8_ConnectionsReleased ==
    \A r \in Requests : req[r].pc = "ended" => req[r].conn # "open"

\* C10: a request with a missing or empty message never opens a connection and
\* never inserts, and the number of rows is the number of requests that passed
\* validation and committed.
C10_RejectedLeavesStore ==
    /\ \A r \in Requests :
           MissingOrEmpty(req[r]) =>
               req[r].conn = "none" /\ req[r].lastrowid = 0 /\ writer # r
    /\ Len(rows) = Cardinality({r \in Committed : ~MissingOrEmpty(req[r])})

\* A request was rejected while another one's row is in the table.
C10_Witness ==
    \E r1, r2 \in Requests :
        /\ req[r1].status = 400
        /\ req[r2].status = 200
        /\ Len(rows) = 1

====
